---- MODULE Spec2Model ----
(***************************************************************************)
(* Model of ai_video_editor.py: the chunked transcribe / detect / cut /    *)
(* reassemble pipeline.  Times are integers counting tenths of a second.   *)
(* A media artifact is the sequence of source spans <<a, b>> it plays, in  *)
(* source-absolute time.                                                   *)
(***************************************************************************)
EXTENDS Integers, Sequences, FiniteSets, TLC

VARIABLES
    total_duration,    \* video.duration of the input, read at line 147
    chunk_duration,    \* the chunk_duration argument of process_long_video
    pc,                \* position of the pipeline
    i,                 \* loop variable of the chunk loop (line 159)
    temp_bound,        \* the local temp_chunk_path of process_video_chunk is bound
    temp_file,         \* temp_chunk_<start>_<end>.mp4 exists on disk
    handles,           \* number of media handles open and not yet closed
    result,            \* the transcript segments held by process_video_chunk
    processed_chunks,  \* chunk indices whose chunk_<i>.mp4 path was appended
    final_clips,       \* chunk indices of the clips loaded for the final concat
    j,                 \* position of the combine loop in processed_chunks
    file,              \* per chunk index: state of temp_chunks/chunk_<i>.mp4
    content,           \* per chunk index: spans of the artifact written
    temp_dir,          \* the directory temp_chunks exists
    output,            \* the final output file
    diagnostic,        \* the last pipeline-level message printed
    log,               \* per chunk index: what happened to the chunk (history)
    attempts,          \* chunks handed to process_video_chunk, in call order
    h                  \* the call under test when a function is run on its own

vars == <<total_duration, chunk_duration, pc, i, temp_bound, temp_file, handles,
          result, processed_chunks, final_clips, j, file, content, temp_dir,
          output, diagnostic, log, attempts, h>>

pipeVars == <<total_duration, chunk_duration, pc, i, temp_bound, temp_file, handles,
              result, processed_chunks, final_clips, j, file, content, temp_dir,
              output, diagnostic, log, attempts>>

----------------------------------------------------------------------------
(* Bounds of the model                                                     *)

MaxTotalDuration == 30
MaxChunkDuration == 15
DurationStep == 5
TimeStep == 3
MaxSegments == 2
MaxTime == 6
MaxCutTime == 4
MaxThreshold == 2
MaxBuffer == 2
MaxSilences == 2
MaxStart == 2
MaxWordTime == 4
MaxAnyTime == 3
MaxWords == 2
MaxWordSegments == 2

(* Program constants, in tenths of a second                                *)

OneSecond == 10
PipelineThreshold == 5
DefaultBuffer == 1
DefaultThreshold == 10

----------------------------------------------------------------------------
(* Helpers                                                                 *)

Min(a, b) == IF a < b THEN a ELSE b

RECURSIVE Duration(_)
Duration(clips) ==
    IF clips = <<>> THEN 0
    ELSE (Head(clips)[2] - Head(clips)[1]) + Duration(Tail(clips))

(* the unit ticks [t, t+1) of lo..hi that the clips play *)
Covered(clips, lo, hi) ==
    {t \in lo..(hi - 1) : \E k \in 1..Len(clips) : clips[k][1] <= t /\ t < clips[k][2]}

Range(s) == {s[k] : k \in 1..Len(s)}

Segments(T) == {w \in [start : T, end : T] : w.start <= w.end}

Transcripts(T) ==
    UNION {{sq \in [1..n -> Segments(T)] :
                \A k \in 1..(n - 1) : sq[k].end <= sq[k + 1].start}
           : n \in 0..MaxSegments}

----------------------------------------------------------------------------
(* identify_silence_periods                                                *)

UpdatePreviousEndStale(previous_end, word) == previous_end

UpdatePreviousEnd(previous_end, word) == word.end

WordStepNoBuffer(st, word, video_duration, threshold, buffer) ==
    [silence_periods |->
        IF word.start - st.previous_end > threshold
        THEN Append(st.silence_periods,
                    <<st.previous_end, Min(word.start, video_duration)>>)
        ELSE st.silence_periods,
     previous_end |-> UpdatePreviousEnd(st.previous_end, word)]

WordStepNoClamp(st, word, video_duration, threshold, buffer) ==
    [silence_periods |->
        IF /\ word.start - st.previous_end > threshold
           /\ word.start - buffer > st.previous_end + buffer
        THEN Append(st.silence_periods,
                    <<st.previous_end + buffer, word.start - buffer>>)
        ELSE st.silence_periods,
     previous_end |-> UpdatePreviousEnd(st.previous_end, word)]

WordStep(st, word, video_duration, threshold, buffer) ==
    LET start_time == word.start
        end_time == Min(start_time - buffer, video_duration)
        emit == /\ start_time - st.previous_end > threshold
                /\ end_time > st.previous_end + buffer
    IN [silence_periods |->
            IF emit
            THEN Append(st.silence_periods, <<st.previous_end + buffer, end_time>>)
            ELSE st.silence_periods,
        previous_end |-> UpdatePreviousEnd(st.previous_end, word)]

RECURSIVE WordLoop(_, _, _, _, _)
WordLoop(words, st, video_duration, threshold, buffer) ==
    IF words = <<>> THEN st
    ELSE WordLoop(Tail(words),
                  WordStep(st, Head(words), video_duration, threshold, buffer),
                  video_duration, threshold, buffer)

identify_silence_periods_NoTail(transcription, video_duration, threshold, buffer) ==
    WordLoop(transcription, [silence_periods |-> <<>>, previous_end |-> 0],
             video_duration, threshold, buffer).silence_periods

identify_silence_periods(transcription, video_duration, threshold, buffer) ==
    LET st == WordLoop(transcription,
                       [silence_periods |-> <<>>, previous_end |-> 0],
                       video_duration, threshold, buffer)
        end_time == Min(video_duration - buffer, video_duration)
    IN IF /\ video_duration - st.previous_end > threshold
          /\ end_time > st.previous_end + buffer
       THEN Append(st.silence_periods, <<st.previous_end + buffer, end_time>>)
       ELSE st.silence_periods

----------------------------------------------------------------------------
(* cut_silences: the clips it keeps, on the time axis of the sub-clip      *)
(* video = VideoFileClip(input_video).subclip(start_time, end_time), which *)
(* runs from 0 to video.duration                                           *)

RECURSIVE CutLoop(_, _, _, _)
CutLoop(silence_periods, last_end, clips, duration) ==
    IF silence_periods = <<>> THEN [clips |-> clips, last_end |-> last_end]
    ELSE LET start == Head(silence_periods)[1]
             end == Head(silence_periods)[2]
         IN IF start > duration
            THEN [clips |-> clips, last_end |-> last_end]
            ELSE CutLoop(Tail(silence_periods),
                         Min(end, duration),
                         IF last_end < start
                         THEN Append(clips, <<last_end, Min(start, duration)>>)
                         ELSE clips,
                         duration)

KeepClipsNoTail(silence_periods, duration) ==
    CutLoop(silence_periods, 0, <<>>, duration).clips

KeepClips(silence_periods, duration) ==
    LET r == CutLoop(silence_periods, 0, <<>>, duration)
    IN IF r.last_end < duration
       THEN Append(r.clips, <<r.last_end, duration>>)
       ELSE r.clips

WrittenClipsNoFallback(silence_periods, duration) ==
    KeepClips(silence_periods, duration)

WrittenClips(silence_periods, duration) ==
    IF KeepClips(silence_periods, duration) # <<>>
    THEN KeepClips(silence_periods, duration)
    ELSE <<<<0, duration>>>>

(* a sub-clip span of video, as a span of the source *)
SourceSpans(clips, start_time) ==
    [k \in 1..Len(clips) |-> <<start_time + clips[k][1], start_time + clips[k][2]>>]

(* line 42 *)
AdjustSilences(silence_periods, start_time) ==
    [k \in 1..Len(silence_periods) |->
        <<silence_periods[k][1] + start_time, silence_periods[k][2] + start_time>>]

----------------------------------------------------------------------------
(* process_long_video: the chunk partition                                 *)

NumChunks(D, C) == (D \div C) + (IF D % C > 0 THEN 1 ELSE 0)

ChunkStart(k) == k * chunk_duration

ChunkEnd(k) == Min((k + 1) * chunk_duration, total_duration)

TooShortOrEqual(start_time, end_time) == end_time - start_time <= OneSecond

TooShort(start_time, end_time) == end_time - start_time < OneSecond

ChunkIdx == 0..(NumChunks(total_duration, chunk_duration) - 1)

TotalDurations == {d \in 1..MaxTotalDuration : d % DurationStep = 0}

ChunkDurations == {c \in 1..MaxChunkDuration : c % DurationStep = 0}

(* the times a transcript of a chunk of duration d may carry *)
TranscriptTimes(d) == {t \in 0..d : t % TimeStep = 0}

NoLog == [ret |-> "none", failed |-> "none", silences |-> <<>>, loaded |-> "none"]

Idle == [kind |-> "idle"]

Init ==
    /\ total_duration \in TotalDurations
    /\ chunk_duration \in ChunkDurations
    /\ pc = "start"
    /\ i = 0
    /\ temp_bound = FALSE
    /\ temp_file = FALSE
    /\ handles = 0
    /\ result = <<>>
    /\ processed_chunks = <<>>
    /\ final_clips = <<>>
    /\ j = 1
    /\ file = [k \in ChunkIdx |-> "absent"]
    /\ content = [k \in ChunkIdx |-> <<>>]
    /\ temp_dir = FALSE
    /\ output = [written |-> FALSE, chunks |-> <<>>, clips |-> <<>>]
    /\ diagnostic = "none"
    /\ log = [k \in ChunkIdx |-> NoLog]
    /\ attempts = <<>>
    /\ h = Idle

(* lines 146-155: the duration is read, the handle closed, temp_chunks made *)
Start ==
    /\ pc = "start"
    /\ pc' = "loop"
    /\ temp_dir' = TRUE
    /\ UNCHANGED <<total_duration, chunk_duration, i, temp_bound, temp_file, handles,
                   result, processed_chunks, final_clips, j, file, content, output,
                   diagnostic, log, attempts, h>>

(* lines 159-165: a chunk shorter than one second is skipped *)
SkipChunk ==
    /\ pc = "loop"
    /\ i < NumChunks(total_duration, chunk_duration)
    /\ TooShort(ChunkStart(i), ChunkEnd(i))
    /\ i' = i + 1
    /\ log' = [log EXCEPT ![i].ret = "skipped"]
    /\ UNCHANGED <<total_duration, chunk_duration, pc, temp_bound, temp_file, handles,
                   result, processed_chunks, final_clips, j, file, content, temp_dir,
                   output, diagnostic, attempts, h>>

(* lines 159-168: process_video_chunk is called for chunk i *)
CallChunk ==
    /\ pc = "loop"
    /\ i < NumChunks(total_duration, chunk_duration)
    /\ ~TooShort(ChunkStart(i), ChunkEnd(i))
    /\ pc' = "open"
    /\ temp_bound' = FALSE
    /\ attempts' = Append(attempts, [index |-> i, start |-> ChunkStart(i),
                                     end |-> ChunkEnd(i)])
    /\ UNCHANGED <<total_duration, chunk_duration, i, temp_file, handles, result,
                   processed_chunks, final_clips, j, file, content, temp_dir, output,
                   diagnostic, log, h>>

(* line 159: range(num_chunks) is exhausted *)
LoopExit ==
    /\ pc = "loop"
    /\ i >= NumChunks(total_duration, chunk_duration)
    /\ pc' = "combine"
    /\ UNCHANGED <<total_duration, chunk_duration, i, temp_bound, temp_file, handles,
                   result, processed_chunks, final_clips, j, file, content, temp_dir,
                   output, diagnostic, log, attempts, h>>

----------------------------------------------------------------------------
(* process_video_chunk for chunk i                                         *)

HandlerEscapesAlways(bound) == TRUE

(* line 50 reads temp_chunk_path, which line 25 binds: when the failing    *)
(* statement came before line 25 the handler itself raises                 *)
HandlerEscapes(bound) == ~bound

ExceptClauseKeepsTemp(step, bound) ==
    IF HandlerEscapes(bound)
    THEN /\ pc' = "crashed"
         /\ log' = [log EXCEPT ![i].ret = "raised", ![i].failed = step]
         /\ UNCHANGED <<i, temp_file>>
    ELSE /\ pc' = "loop"
         /\ i' = i + 1
         /\ UNCHANGED temp_file
         /\ log' = [log EXCEPT ![i].ret = "false", ![i].failed = step]

ExceptClauseRetries(step, bound) ==
    IF HandlerEscapes(bound)
    THEN /\ pc' = "crashed"
         /\ log' = [log EXCEPT ![i].ret = "raised", ![i].failed = step]
         /\ UNCHANGED <<i, temp_file>>
    ELSE /\ pc' = "loop"
         /\ UNCHANGED i
         /\ temp_file' = FALSE
         /\ log' = [log EXCEPT ![i].ret = "false", ![i].failed = step]

(* lines 48-52 and, on return False, the loop's next iteration *)
ExceptClause(step, bound) ==
    IF HandlerEscapes(bound)
    THEN /\ pc' = "crashed"
         /\ log' = [log EXCEPT ![i].ret = "raised", ![i].failed = step]
         /\ UNCHANGED <<i, temp_file>>
    ELSE /\ pc' = "loop"
         /\ i' = i + 1
         /\ temp_file' = FALSE
         /\ log' = [log EXCEPT ![i].ret = "false", ![i].failed = step]

(* lines 21-22 *)
OpenChunk ==
    /\ pc = "open"
    /\ pc' = "write_temp"
    /\ handles' = handles + 1
    /\ UNCHANGED <<total_duration, chunk_duration, i, temp_bound, temp_file, result,
                   processed_chunks, final_clips, j, file, content, temp_dir, output,
                   diagnostic, log, attempts, h>>

(* line 21 raises: the source cannot be opened *)
OpenChunkFails ==
    /\ pc = "open"
    /\ ExceptClause("open", temp_bound)
    /\ UNCHANGED <<total_duration, chunk_duration, temp_bound, handles, result,
                   processed_chunks, final_clips, j, file, content, temp_dir, output,
                   diagnostic, attempts, h>>

(* lines 25-27 *)
WriteTemp ==
    /\ pc = "write_temp"
    /\ temp_bound' = TRUE
    /\ temp_file' = TRUE
    /\ handles' = handles - 1
    /\ pc' = "transcribe"
    /\ UNCHANGED <<total_duration, chunk_duration, i, result, processed_chunks,
                   final_clips, j, file, content, temp_dir, output, diagnostic, log,
                   attempts, h>>

(* line 26 raises: whatever was written of the temporary file is removed   *)
(* by the handler, and line 27 is not reached                              *)
WriteTempFails ==
    /\ pc = "write_temp"
    /\ temp_bound' = TRUE
    /\ ExceptClause("write_temp", TRUE)
    /\ UNCHANGED <<total_duration, chunk_duration, handles, result, processed_chunks,
                   final_clips, j, file, content, temp_dir, output, diagnostic,
                   attempts, h>>

(* lines 30-36: the transcript comes back and the temporary file is removed *)
Transcribe ==
    /\ pc = "transcribe"
    /\ \E tr \in Transcripts(TranscriptTimes(ChunkEnd(i) - ChunkStart(i))) :
            result' = tr
    /\ temp_file' = FALSE
    /\ pc' = "cut"
    /\ UNCHANGED <<total_duration, chunk_duration, i, temp_bound, handles,
                   processed_chunks, final_clips, j, file, content, temp_dir, output,
                   diagnostic, log, attempts, h>>

(* line 30 or line 31 raises *)
TranscribeFails ==
    /\ pc = "transcribe"
    /\ ExceptClause("transcribe", temp_bound)
    /\ UNCHANGED <<total_duration, chunk_duration, temp_bound, handles, result,
                   processed_chunks, final_clips, j, file, content, temp_dir, output,
                   diagnostic, attempts, h>>

(* line 22 and line 39 *)
DetectedSilences ==
    identify_silence_periods(result, ChunkEnd(i) - ChunkStart(i),
                             PipelineThreshold, DefaultBuffer)

(* lines 42-45 and 100-124: what cut_silences writes for chunk i *)
ChunkArtifact ==
    SourceSpans(WrittenClips(AdjustSilences(DetectedSilences, ChunkStart(i)),
                             ChunkEnd(i) - ChunkStart(i)),
                ChunkStart(i))

PrependChunk(chunks, k) == <<k>> \o chunks

(* line 169 *)
AppendChunk(chunks, k) == Append(chunks, k)

(* line 47 returns True, line 169 appends the path, next iteration *)
ReturnTrue(failed) ==
    /\ processed_chunks' = AppendChunk(processed_chunks, i)
    /\ i' = i + 1
    /\ pc' = "loop"
    /\ result' = <<>>
    /\ log' = [log EXCEPT ![i].ret = "true", ![i].failed = failed,
                          ![i].silences = DetectedSilences]

(* line 39 raises on a malformed transcription result *)
DetectFails ==
    /\ pc = "cut"
    /\ ExceptClause("detect", temp_bound)
    /\ result' = <<>>
    /\ UNCHANGED <<total_duration, chunk_duration, temp_bound, handles,
                   processed_chunks, final_clips, j, file, content, temp_dir, output,
                   diagnostic, attempts, h>>

(* lines 39-47 with cut_silences running to line 130 *)
CutSucceeds ==
    /\ pc = "cut"
    /\ file' = [file EXCEPT ![i] = "ok"]
    /\ content' = [content EXCEPT ![i] = ChunkArtifact]
    /\ ReturnTrue("none")
    /\ UNCHANGED <<total_duration, chunk_duration, temp_bound, temp_file, handles,
                   final_clips, j, temp_dir, output, diagnostic, attempts, h>>

(* line 100 raises inside cut_silences: lines 131-134 swallow it, no handle *)
(* was opened, nothing is written, and line 47 still returns True          *)
CutLoadFails ==
    /\ pc = "cut"
    /\ ReturnTrue("cut_load")
    /\ UNCHANGED <<total_duration, chunk_duration, temp_bound, temp_file, handles,
                   final_clips, j, file, content, temp_dir, output, diagnostic,
                   attempts, h>>

(* line 124 or 128 raises inside cut_silences: lines 131-134 swallow it    *)
(* and close video; the encoder may leave a truncated file behind          *)
CutEncodeFails ==
    /\ pc = "cut"
    /\ \E left \in {"absent", "partial"} : file' = [file EXCEPT ![i] = left]
    /\ ReturnTrue("cut_encode")
    /\ UNCHANGED <<total_duration, chunk_duration, temp_bound, temp_file, handles,
                   final_clips, j, content, temp_dir, output, diagnostic, attempts, h>>

----------------------------------------------------------------------------
(* process_long_video: combining the processed chunks                      *)

(* lines 172 and 205-206 *)
NoChunks ==
    /\ pc = "combine"
    /\ processed_chunks = <<>>
    /\ diagnostic' = "No chunks were successfully processed."
    /\ pc' = "done"
    /\ UNCHANGED <<total_duration, chunk_duration, i, temp_bound, temp_file, handles,
                   result, processed_chunks, final_clips, j, file, content, temp_dir,
                   output, log, attempts, h>>

(* lines 172-174 *)
CombineStart ==
    /\ pc = "combine"
    /\ processed_chunks # <<>>
    /\ final_clips' = <<>>
    /\ j' = 1
    /\ pc' = "load"
    /\ UNCHANGED <<total_duration, chunk_duration, i, temp_bound, temp_file, handles,
                   result, processed_chunks, diagnostic, file, content, temp_dir,
                   output, log, attempts, h>>

(* lines 177-179: the clip opens and has a positive duration *)
LoadKeeps ==
    /\ pc = "load"
    /\ j <= Len(processed_chunks)
    /\ file[processed_chunks[j]] = "ok"
    /\ Duration(content[processed_chunks[j]]) > 0
    /\ final_clips' = Append(final_clips, processed_chunks[j])
    /\ handles' = handles + 1
    /\ log' = [log EXCEPT ![processed_chunks[j]].loaded = "kept"]
    /\ j' = j + 1
    /\ UNCHANGED <<total_duration, chunk_duration, pc, i, temp_bound, temp_file,
                   result, processed_chunks, file, content, temp_dir, output,
                   diagnostic, attempts, h>>

(* lines 177-182: the clip opens with duration 0, is closed and removed *)
LoadDiscards ==
    /\ pc = "load"
    /\ j <= Len(processed_chunks)
    /\ \/ file[processed_chunks[j]] = "partial"
       \/ /\ file[processed_chunks[j]] = "ok"
          /\ Duration(content[processed_chunks[j]]) = 0
    /\ file' = [file EXCEPT ![processed_chunks[j]] = "absent"]
    /\ log' = [log EXCEPT ![processed_chunks[j]].loaded = "zero"]
    /\ j' = j + 1
    /\ UNCHANGED <<total_duration, chunk_duration, pc, i, temp_bound, temp_file,
                   handles, result, processed_chunks, final_clips, content, temp_dir,
                   output, diagnostic, attempts, h>>

(* lines 177 and 183-186: the file is missing or unreadable, the error is  *)
(* printed and the file removed if it exists                               *)
LoadRaises ==
    /\ pc = "load"
    /\ j <= Len(processed_chunks)
    /\ file[processed_chunks[j]] \in {"absent", "partial"}
    /\ file' = [file EXCEPT ![processed_chunks[j]] = "absent"]
    /\ log' = [log EXCEPT ![processed_chunks[j]].loaded = "raised"]
    /\ j' = j + 1
    /\ UNCHANGED <<total_duration, chunk_duration, pc, i, temp_bound, temp_file,
                   handles, result, processed_chunks, final_clips, content, temp_dir,
                   output, diagnostic, attempts, h>>

(* lines 188 and 203-204 *)
NoValidClips ==
    /\ pc = "load"
    /\ j > Len(processed_chunks)
    /\ final_clips = <<>>
    /\ diagnostic' = "No valid clips to combine."
    /\ pc' = "done"
    /\ UNCHANGED <<total_duration, chunk_duration, i, temp_bound, temp_file, handles,
                   result, processed_chunks, final_clips, j, file, content, temp_dir,
                   output, log, attempts, h>>

RECURSIVE ConcatContents(_)
ConcatContents(chunks) ==
    IF chunks = <<>> THEN <<>>
    ELSE content[Head(chunks)] \o ConcatContents(Tail(chunks))

(* lines 188-202: the final video is written, every clip closed, every     *)
(* chunk file and the directory removed                                    *)
WriteFinal ==
    /\ pc = "load"
    /\ j > Len(processed_chunks)
    /\ final_clips # <<>>
    /\ output' = [written |-> TRUE, chunks |-> final_clips,
                  clips |-> ConcatContents(final_clips)]
    /\ handles' = handles - Len(final_clips)
    /\ file' = [k \in ChunkIdx |->
                    IF k \in Range(processed_chunks) THEN "absent" ELSE file[k]]
    /\ temp_dir' = FALSE
    /\ diagnostic' = "Processing completed successfully!"
    /\ pc' = "done"
    /\ UNCHANGED <<total_duration, chunk_duration, i, temp_bound, temp_file, result,
                   processed_chunks, final_clips, j, content, log, attempts, h>>

(* line 190 or 192 raises: nothing catches it, process_long_video is left  *)
(* with lines 193-202 not run                                              *)
WriteFinalFails ==
    /\ pc = "load"
    /\ j > Len(processed_chunks)
    /\ final_clips # <<>>
    /\ pc' = "crashed"
    /\ UNCHANGED <<total_duration, chunk_duration, i, temp_bound, temp_file, handles,
                   result, processed_chunks, final_clips, j, file, content, temp_dir,
                   output, diagnostic, log, attempts, h>>

Next ==
    \/ Start
    \/ SkipChunk
    \/ CallChunk
    \/ LoopExit
    \/ OpenChunk
    \/ OpenChunkFails
    \/ WriteTemp
    \/ WriteTempFails
    \/ Transcribe
    \/ TranscribeFails
    \/ DetectFails
    \/ CutSucceeds
    \/ CutLoadFails
    \/ CutEncodeFails
    \/ NoChunks
    \/ CombineStart
    \/ LoadKeeps
    \/ LoadDiscards
    \/ LoadRaises
    \/ NoValidClips
    \/ WriteFinal
    \/ WriteFinalFails

Spec == Init /\ [][Next]_vars

----------------------------------------------------------------------------
(* identify_silence_periods and cut_silences called on their own           *)

PipelineIdle ==
    /\ total_duration = 0
    /\ chunk_duration = 1
    /\ pc = "idle"
    /\ i = 0
    /\ temp_bound = FALSE
    /\ temp_file = FALSE
    /\ handles = 0
    /\ result = <<>>
    /\ processed_chunks = <<>>
    /\ final_clips = <<>>
    /\ j = 1
    /\ file = <<>>
    /\ content = <<>>
    /\ temp_dir = FALSE
    /\ output = [written |-> FALSE, chunks |-> <<>>, clips |-> <<>>]
    /\ diagnostic = "none"
    /\ log = <<>>
    /\ attempts = <<>>

DetectInputs(T) ==
    {[kind |-> "detect", transcription |-> tr, video_duration |-> d,
      threshold |-> th, buffer |-> b, done |-> FALSE, out |-> <<>>] :
        tr \in Transcripts(T), d \in T,
        th \in 0..MaxThreshold, b \in 0..MaxBuffer}

(* occupied intervals [0,2], [2,4], [8,10] seconds in a chunk of 10 s, with  *)
(* the default threshold and buffer of line 54                              *)
RoundTripInput ==
    [kind |-> "detect",
     transcription |-> <<[start |-> 0, end |-> 20], [start |-> 20, end |-> 40],
                         [start |-> 80, end |-> 100]>>,
     video_duration |-> 100, threshold |-> DefaultThreshold,
     buffer |-> DefaultBuffer, done |-> FALSE, out |-> <<>>]

InitDetect == PipelineIdle /\ h \in DetectInputs(0..MaxTime) \cup {RoundTripInput}

(* lines 54-85 *)
DetectCall ==
    /\ h.kind = "detect"
    /\ ~h.done
    /\ h' = [h EXCEPT !.done = TRUE,
                      !.out = identify_silence_periods(h.transcription,
                                  h.video_duration, h.threshold, h.buffer)]
    /\ UNCHANGED pipeVars

NextDetect == DetectCall

SpecDetect == InitDetect /\ [][NextDetect]_vars

(* a transcript as the transcription service returns it with               *)
(* word_timestamps=True (lines 31-33): every segment carries its words, and *)
(* starts with its first word and ends with its last                        *)
WordSeqs(T) ==
    UNION {{ws \in [1..n -> Segments(T)] :
                \A k \in 1..(n - 1) : ws[k].end <= ws[k + 1].start}
           : n \in 1..MaxWords}

WordedSegments(T) ==
    {[start |-> ws[1].start, end |-> ws[Len(ws)].end, words |-> ws] :
        ws \in WordSeqs(T)}

WordedTranscripts(T) ==
    UNION {{sq \in [1..n -> WordedSegments(T)] :
                \A k \in 1..(n - 1) : sq[k].end <= sq[k + 1].start}
           : n \in 0..MaxWordSegments}

(* the chunk is at least as long as its transcript *)
WordInputs(T) ==
    {x \in [kind : {"detect"}, transcription : WordedTranscripts(T),
            video_duration : T, threshold : 0..MaxThreshold,
            buffer : 0..MaxBuffer, done : {FALSE}, out : {<<>>}] :
        \A k \in 1..Len(x.transcription) :
            x.transcription[k].end <= x.video_duration}

InitDetectWords == PipelineIdle /\ h \in WordInputs(0..MaxWordTime)

SpecDetectWords == InitDetectWords /\ [][NextDetect]_vars

(* transcripts with non-negative times whose entries come in any order,    *)
(* and may lie past the chunk duration                                     *)
AnyTranscripts(T) == UNION {[1..n -> Segments(T)] : n \in 0..MaxSegments}

AnyInputs(T) ==
    [kind : {"detect"}, transcription : AnyTranscripts(T),
     video_duration : T, threshold : 0..MaxThreshold,
     buffer : 0..MaxBuffer, done : {FALSE}, out : {<<>>}]

InitDetectAny == PipelineIdle /\ h \in AnyInputs(0..MaxAnyTime)

SpecDetectAny == InitDetectAny /\ [][NextDetect]_vars

(* intervals with 0 <= start <= end; they may reach past the media *)
Intervals(T) == {p \in T \X T : p[1] <= p[2]}

SilenceLists(T) == UNION {[1..n -> Intervals(T)] : n \in 0..MaxSilences}

CutInputs(longest) ==
    {[kind |-> "cut", silence_periods |-> sp, start_time |-> st,
      end_time |-> st + d, done |-> FALSE, clips |-> <<>>, out |-> <<>>] :
        sp \in SilenceLists(0..(longest + 1)), st \in 0..MaxStart,
        d \in 1..longest}

InitCut == PipelineIdle /\ h \in CutInputs(MaxCutTime)

(* lines 98-130: the clips cut_silences keeps (the local clips, on the     *)
(* sub-clip's axis) and the artifact it writes                             *)
CutCall ==
    /\ h.kind = "cut"
    /\ ~h.done
    /\ h' = [h EXCEPT !.done = TRUE,
                      !.clips = KeepClips(h.silence_periods,
                                          h.end_time - h.start_time),
                      !.out = SourceSpans(WrittenClips(h.silence_periods,
                                              h.end_time - h.start_time),
                                          h.start_time)]
    /\ UNCHANGED pipeVars

NextCut == CutCall

SpecCut == InitCut /\ [][NextCut]_vars

----------------------------------------------------------------------------
(* Properties                                                              *)

ChunkLen(k) == Min((k + 1) * chunk_duration, total_duration) - k * chunk_duration

(* process_video_chunk has been called for chunk k *)
Called(k) ==
    \/ k < i
    \/ k = i /\ pc \in {"open", "write_temp", "transcribe", "cut", "crashed"}

AttemptedIdx == {attempts[m].index : m \in 1..Len(attempts)}

LoopFinished == pc \in {"combine", "load", "done"}

(* chunk k returned success and its artifact was really written *)
Materialized(k) == log[k].ret = "true" /\ log[k].failed = "none"

Increasing(S) ==
    CHOOSE sq \in [1..Cardinality(S) -> S] :
        \A m, n \in 1..Cardinality(S) : m < n => sq[m] < sq[n]

(* the ticks of chunk k that lie outside every detected silence *)
SpeechTicks(k) ==
    {t \in (k * chunk_duration)..(k * chunk_duration + ChunkLen(k) - 1) :
        \A m \in 1..Len(log[k].silences) :
            ~(/\ k * chunk_duration + log[k].silences[m][1] <= t
              /\ t < k * chunk_duration + log[k].silences[m][2])}

OrderedSpans(clips) ==
    /\ \A m \in 1..Len(clips) : clips[m][1] < clips[m][2]
    /\ \A m \in 1..(Len(clips) - 1) : clips[m][2] <= clips[m + 1][1]

(* C1: for every chunk handed to process_video_chunk, chunks with a start  *)
(* greater than 0 included, and every non-empty list of detected silences, *)
(* the artifact cut_silences writes plays exactly the part of the chunk    *)
(* range outside the detected silences, in order.                          *)
C1_ArtifactOmitsDetectedSilences ==
    \A k \in ChunkIdx :
        (file[k] = "ok" /\ log[k].silences # <<>>) =>
            /\ OrderedSpans(content[k])
            /\ Covered(content[k], 0, total_duration) = SpeechTicks(k)

(* C2, as stated: once the loop is over the chunks processed are ordered,  *)
(* contiguous, non-overlapping, each no longer than the chunk size, cover  *)
(* [0, D) exactly, and none is shorter than one second.                    *)
C2_ChunksCoverWholeDuration ==
    LoopFinished =>
        /\ attempts # <<>>
        /\ attempts[1].start = 0
        /\ attempts[Len(attempts)].end = total_duration
        /\ \A m \in 1..(Len(attempts) - 1) :
                /\ attempts[m].index < attempts[m + 1].index
                /\ attempts[m].end = attempts[m + 1].start
        /\ \A m \in 1..Len(attempts) :
                /\ attempts[m].end - attempts[m].start <= chunk_duration
                /\ attempts[m].end - attempts[m].start >= OneSecond

(* C2, amended: the chunks processed are, in index order, exactly the      *)
(* pieces [k*C, min((k+1)*C, D)) the loop has come to whose length is at   *)
(* least one second; they do not overlap, none is longer than C, and once  *)
(* the loop is over the part of [0, D) they leave uncovered is exactly the *)
(* pieces shorter than one second.                                         *)
C2_ChunksAreThePiecesOfOneSecond ==
    /\ \A m \in 1..Len(attempts) :
            /\ attempts[m].start = attempts[m].index * chunk_duration
            /\ attempts[m].end =
                   Min((attempts[m].index + 1) * chunk_duration, total_duration)
            /\ attempts[m].end - attempts[m].start <= chunk_duration
    /\ \A m \in 1..(Len(attempts) - 1) :
            /\ attempts[m].index < attempts[m + 1].index
            /\ attempts[m].end <= attempts[m + 1].start
    /\ AttemptedIdx = {k \in ChunkIdx : Called(k) /\ ChunkLen(k) >= OneSecond}
    /\ LoopFinished =>
            {t \in 0..(total_duration - 1) :
                ~\E m \in 1..Len(attempts) :
                    attempts[m].start <= t /\ t < attempts[m].end}
            = {t \in 0..(total_duration - 1) :
                \E k \in ChunkIdx :
                    /\ ChunkLen(k) < OneSecond
                    /\ k * chunk_duration <= t
                    /\ t < k * chunk_duration + ChunkLen(k)}

C2_Witness ==
    /\ pc = "combine"
    /\ Len(attempts) = 2
    /\ \E k \in ChunkIdx : log[k].ret = "skipped" /\ ChunkLen(k) > 0

(* C3: a failure of any step of per-chunk processing makes                 *)
(* process_video_chunk return failure for that chunk: no exception leaves  *)
(* it, and the loop goes on to the later chunks.                           *)
C3_StepFailureReturnsFailure ==
    /\ \A k \in ChunkIdx : log[k].failed # "none" => log[k].ret = "false"
    /\ pc = "crashed" => i >= NumChunks(total_duration, chunk_duration)

(* C4: an error inside cut_silences makes process_video_chunk report       *)
(* failure; a chunk reported as success, and so every path in              *)
(* processed_chunks, has its artifact written.                             *)
C4_SuccessMeansArtifactWritten ==
    \A k \in ChunkIdx :
        /\ log[k].failed \in {"cut_load", "cut_encode"} => log[k].ret = "false"
        /\ log[k].ret = "true" => log[k].failed = "none"
        /\ k \in Range(processed_chunks) => log[k].failed = "none"

(* C5: the final concatenation holds exactly the surviving chunk           *)
(* artifacts, in strictly increasing chunk-index order, each once.         *)
C5_FinalKeepsSurvivorsInIndexOrder ==
    output.written =>
        LET survivors == {k \in ChunkIdx : Materialized(k)}
        IN /\ output.chunks = Increasing(survivors)
           /\ output.clips = ConcatContents(Increasing(survivors))

C5_Witness ==
    /\ output.written
    /\ output.chunks = <<0, 2>>
    /\ log[1].ret = "false"
    /\ output.clips = content[0] \o content[2]

(* C6: when transcription raises for chunk k, no exception leaves chunk k, *)
(* chunks k-1 and k+1 are still processed, and the final output, when      *)
(* written, holds the content of each of them that succeeded.              *)
C6_TranscriptionFailureContained ==
    \A k \in ChunkIdx :
        log[k].failed = "transcribe" =>
            /\ log[k].ret = "false"
            /\ \A n \in {k - 1, k + 1} \cap ChunkIdx :
                  /\ (ChunkLen(n) >= OneSecond /\ ~(pc = "loop" /\ i = n))
                        => n \in AttemptedIdx
                  /\ (output.written /\ Materialized(n))
                        => \E m \in 1..Len(output.chunks) : output.chunks[m] = n

C6_Witness ==
    /\ output.written
    /\ 2 \in ChunkIdx
    /\ log[1].failed = "transcribe"
    /\ Materialized(0)
    /\ Materialized(2)
    /\ Range(output.chunks) = {0, 2}

(* C7: if every chunk fails, or no artifact survives the filter, the       *)
(* pipeline ends normally with a diagnostic and no output file; the final  *)
(* output is written only when an artifact survives.                       *)
C7_NoSurvivorEndsWithDiagnostic ==
    /\ output.written => \E k \in ChunkIdx : Materialized(k)
    /\ ( /\ pc \in {"done", "crashed"}
         /\ \A k \in ChunkIdx : ChunkLen(k) >= OneSecond => k \in AttemptedIdx
         /\ \A k \in ChunkIdx : ~Materialized(k) )
       => /\ pc = "done"
          /\ ~output.written
          /\ diagnostic \in {"No chunks were successfully processed.",
                             "No valid clips to combine."}

(* C8: on every exit path of process_long_video past the chunk loop (the   *)
(* output written, no chunk succeeded, no artifact survived, the final     *)
(* concatenation failed) the temporary directory and every per-chunk       *)
(* artifact in it have been removed.                                       *)
C8_ExitLeavesNothingBehind ==
    ( \/ pc = "done"
      \/ pc = "crashed" /\ i >= NumChunks(total_duration, chunk_duration) )
    => /\ ~temp_dir
       /\ \A k \in ChunkIdx : file[k] = "absent"

CoversRange(silence_periods, duration) ==
    \A t \in 0..(duration - 1) :
        \E m \in 1..Len(silence_periods) :
            silence_periods[m][1] <= t /\ t < silence_periods[m][2]

OrderedIntervals(silence_periods) ==
    \A m \in 1..(Len(silence_periods) - 1) :
        silence_periods[m][2] <= silence_periods[m + 1][1]

(* C9: for every non-empty range and every list of silence intervals       *)
(* cut_silences writes an artifact of positive duration; when the silences *)
(* leave nothing to keep it writes the whole range.                        *)
C9_CutNeverWritesEmpty ==
    (h.kind = "cut" /\ h.done) =>
        /\ Duration(h.out) > 0
        /\ \A m \in 1..Len(h.out) : h.out[m][1] < h.out[m][2]
        /\ ( /\ OrderedIntervals(h.silence_periods)
             /\ CoversRange(h.silence_periods, h.end_time - h.start_time) )
           => h.out = <<<<h.start_time, h.end_time>>>>

C9_Witness ==
    /\ h.kind = "cut"
    /\ h.done
    /\ h.start_time = 1
    /\ h.end_time = 4
    /\ h.silence_periods = <<<<0, 2>>, <<2, 5>>>>
    /\ h.out = <<<<1, 4>>>>

(* C10: for a transcript monotonic in time and any chunk duration,         *)
(* threshold >= 0 and buffer >= 0, the intervals returned by               *)
(* identify_silence_periods are strictly increasing by start and no two    *)
(* overlap.                                                                *)
C10_SilencesIncreasingAndDisjoint ==
    (h.kind = "detect" /\ h.done) =>
        \A m, n \in 1..Len(h.out) :
            m < n => /\ h.out[m][1] < h.out[n][1]
                     /\ h.out[m][2] <= h.out[n][1]

C10_Witness ==
    /\ h.kind = "detect"
    /\ h.done
    /\ h.threshold = 1
    /\ h.buffer = 1
    /\ Len(h.transcription) = 1
    /\ Len(h.out) = 2

(* C11: for occupied intervals [0,2], [2,4], [8,10], threshold 1.0, buffer *)
(* 0.1 and a chunk duration of 10, identify_silence_periods returns        *)
(* exactly one interval, (4.1, 7.9).                                       *)
C11_RoundTripGivesOneInterval ==
    ( /\ h.kind = "detect"
      /\ h.done
      /\ h.transcription = <<[start |-> 0, end |-> 20], [start |-> 20, end |-> 40],
                             [start |-> 80, end |-> 100]>>
      /\ h.video_duration = 100
      /\ h.threshold = 10
      /\ h.buffer = 1 )
    => h.out = <<<<41, 79>>>>

C11_Witness ==
    /\ h.kind = "detect"
    /\ h.done
    /\ Len(h.transcription) = 3
    /\ h.transcription[3].end = 100
    /\ h.out = <<<<41, 79>>>>

RECURSIVE FlattenWords(_)
FlattenWords(transcription) ==
    IF transcription = <<>> THEN <<>>
    ELSE Head(transcription).words \o FlattenWords(Tail(transcription))

(* C12: silence is detected at word resolution: whenever two consecutive   *)
(* words of the flattened word list, two words of one segment included,    *)
(* are more than threshold + 2*buffer apart, the returned list holds       *)
(* (previous_word.end + buffer, next_word.start - buffer).                 *)
C12_WordGapsAreReturned ==
    (h.kind = "detect" /\ h.done) =>
        LET ws == FlattenWords(h.transcription)
        IN \A k \in 1..(Len(ws) - 1) :
              ws[k + 1].start - ws[k].end > h.threshold + 2 * h.buffer
                => \E m \in 1..Len(h.out) :
                      h.out[m] = <<ws[k].end + h.buffer, ws[k + 1].start - h.buffer>>

(* C13: for an ordered, non-overlapping list of silences relative to the   *)
(* cut range, the keep spans cut_silences accumulates are ordered,         *)
(* pairwise disjoint, of positive length, within [0, media duration], and  *)
(* their union is [0, media duration] minus the silences; silences that    *)
(* start past the media duration are ignored.                              *)
C13_KeepSpansAreTheComplement ==
    (h.kind = "cut" /\ h.done /\ OrderedIntervals(h.silence_periods)) =>
        LET duration == h.end_time - h.start_time
        IN /\ OrderedSpans(h.clips)
           /\ \A m \in 1..Len(h.clips) :
                  0 <= h.clips[m][1] /\ h.clips[m][2] <= duration
           /\ Covered(h.clips, 0, duration + 2)
                = {t \in 0..(duration - 1) :
                      ~\E m \in 1..Len(h.silence_periods) :
                          /\ h.silence_periods[m][1] <= t
                          /\ t < h.silence_periods[m][2]}

C13_Witness ==
    /\ h.kind = "cut"
    /\ h.done
    /\ h.end_time - h.start_time = 3
    /\ h.silence_periods = <<<<1, 2>>, <<4, 5>>>>
    /\ h.clips = <<<<0, 1>>, <<2, 3>>>>

(* process_video_chunk is running for chunk i *)
InChunk == pc \in {"open", "write_temp", "transcribe", "cut"}

(* C14: whenever process_video_chunk has returned, with success or with    *)
(* failure at any step, the temporary transcription file of the chunk no   *)
(* longer exists; on the success path it is removed after transcription    *)
(* and before silence detection and cutting begin.                         *)
C14_TempFileGoneOnReturn ==
    /\ ~InChunk => ~temp_file
    /\ pc = "cut" => ~temp_file
    /\ temp_file => pc = "transcribe"

C14_Witness ==
    /\ pc = "loop"
    /\ 1 \in ChunkIdx
    /\ log[0].failed = "transcribe"
    /\ log[0].ret = "false"
    /\ ~temp_file

(* C15: when a chunk retires, with success or failure, every media handle  *)
(* opened on the source or on intermediate clips while it was processed    *)
(* has been closed.                                                        *)
C15_HandlesClosedWhenChunkRetires ==
    pc \in {"loop", "combine"} => handles = 0

(* C16: every interval (s, e) identify_silence_periods returns, for any    *)
(* transcript with non-negative times and any chunk duration, threshold    *)
(* >= 0 and buffer >= 0, has 0 <= s < e <= chunk_duration, with s the      *)
(* previous occupied end plus buffer and e the next start minus buffer     *)
(* clamped to chunk_duration (chunk_duration minus buffer for the trailing *)
(* interval); a gap above threshold but not above 2*buffer gives no        *)
(* interval.                                                               *)
C16_IntervalsInsideChunkAndShrunk ==
    (h.kind = "detect" /\ h.done) =>
        LET tr == h.transcription
            n == Len(tr)
            PrevEnd(k) == IF k = 1 THEN 0 ELSE tr[k - 1].end
            NextStart(k) == IF k <= n THEN tr[k].start ELSE h.video_duration
            ShrunkEnd(k) == IF k <= n
                            THEN Min(tr[k].start - h.buffer, h.video_duration)
                            ELSE h.video_duration - h.buffer
            Wide(k) == /\ NextStart(k) - PrevEnd(k) > h.threshold
                       /\ NextStart(k) - PrevEnd(k) > 2 * h.buffer
        IN /\ \A m \in 1..Len(h.out) :
                /\ 0 <= h.out[m][1]
                /\ h.out[m][1] < h.out[m][2]
                /\ h.out[m][2] <= h.video_duration
                /\ \E k \in 1..(n + 1) :
                      /\ Wide(k)
                      /\ h.out[m] = <<PrevEnd(k) + h.buffer, ShrunkEnd(k)>>
           /\ Len(h.out) <= Cardinality({k \in 1..(n + 1) : Wide(k)})

C16_Witness ==
    /\ h.kind = "detect"
    /\ h.done
    /\ h.video_duration = 2
    /\ h.buffer = 0
    /\ h.transcription = <<[start |-> 3, end |-> 3]>>
    /\ h.out = <<<<0, 2>>>>

(* C17, as stated: for an empty transcript identify_silence_periods        *)
(* returns the whole chunk (0, chunk_duration) as its one interval when    *)
(* chunk_duration exceeds threshold, and nothing when chunk_duration is    *)
(* shorter than threshold.                                                 *)
C17_EmptyTranscriptGivesWholeChunk ==
    (h.kind = "detect" /\ h.done /\ h.transcription = <<>>) =>
        /\ h.video_duration > h.threshold => h.out = <<<<0, h.video_duration>>>>
        /\ h.video_duration < h.threshold => h.out = <<>>

(* C17, amended: for an empty transcript identify_silence_periods returns  *)
(* exactly one interval, (buffer, chunk_duration - buffer), when           *)
(* chunk_duration exceeds both threshold and 2*buffer, and no interval     *)
(* otherwise.                                                              *)
C17_EmptyTranscriptGivesShrunkChunk ==
    (h.kind = "detect" /\ h.done /\ h.transcription = <<>>) =>
        h.out = IF /\ h.video_duration > h.threshold
                   /\ h.video_duration > 2 * h.buffer
                THEN <<<<h.buffer, h.video_duration - h.buffer>>>>
                ELSE <<>>

C17_Witness ==
    /\ h.kind = "detect"
    /\ h.done
    /\ h.transcription = <<>>
    /\ h.threshold = 2
    /\ h.out = <<<<1, 5>>>>

(* C18: each chunk of at least one second is attempted once, with no       *)
(* retry, in strictly increasing index order; a chunk is started only      *)
(* after the one before it has returned success or failure; and final      *)
(* assembly starts only after every chunk has been attempted.              *)
C18_SequentialSingleAttempts ==
    /\ \A m, n \in 1..Len(attempts) :
            m < n => attempts[m].index < attempts[n].index
    /\ \A m \in 1..(Len(attempts) - 1) :
            log[attempts[m].index].ret \in {"true", "false"}
    /\ InChunk =>
            /\ attempts # <<>>
            /\ attempts[Len(attempts)].index = i
            /\ log[i].ret = "none"
    /\ (pc \in {"combine", "load", "done"} \/ output.written) =>
            \A k \in ChunkIdx :
                IF ChunkLen(k) >= OneSecond
                THEN /\ Cardinality({m \in 1..Len(attempts) :
                                        attempts[m].index = k}) = 1
                     /\ log[k].ret \in {"true", "false"}
                ELSE k \notin AttemptedIdx

C18_Witness ==
    /\ pc = "load"
    /\ Len(attempts) = 3
    /\ log[1].ret = "false"
    /\ log[2].ret = "true"

====
